---- MODULE Spec2Model ----
(***************************************************************************)
(* Model of calc_acyclic_causal_rel_3x3 (4.make.causal.graphs.from.corr.py)*)
(* and of its driver.  One action per statement block or loop iteration    *)
(* of the function; the Python locals are the variables of the model.      *)
(*                                                                         *)
(* Numbers.  A float is modelled by the exact rational <<n, d>> in lowest  *)
(* terms with d > 0; d = 0 stands for the non-finite floats a division by  *)
(* zero yields (<<1,0>> = inf, <<-1,0>> = -inf, <<0,0>> = nan).  Rounding  *)
(* of the binary representation is not modelled.                           *)
(***************************************************************************)
EXTENDS Integers, Sequences, FiniteSets, TLC

VARIABLES pc, calls, r13, r23, r12, verb, it, ii, jj, kk, pp,
          R, M1, M2, M, S, C, out, ret, divs, prev

vars == <<pc, calls, r13, r23, r12, verb, it, ii, jj, kk, pp,
          R, M1, M2, M, S, C, out, ret, divs, prev>>

locals == <<ii, jj, kk, pp, R, M1, M2, M, S, C>>

(* pc            position in the function; "exit" is sys.exit(-1) of line 75,  *)
(*               "raised" an IndexError leaving the function, "done" returned  *)
(* calls         number of calls made so far by the driver                     *)
(* r13 r23 r12 verb   the arguments of the running call                        *)
(* it            position of the iterator of the loop being run                *)
(* ii jj kk pp R M1 M2 M S C   the locals of the function                      *)
(* out           the lines printed by the running call, one entry per print    *)
(* ret           the value returned, None before the return                    *)
(* divs          history: <<pp, denom>> of every permutation that divided      *)
(* prev          history: return value and output of the call before, kept     *)
(*               when the running call repeats its arguments                   *)

(* ------------------------------ bounds -------------------------------- *)

\* input correlations are the multiples n/Q of 1/Q with |n| <= MaxNum
MaxNum == 3
\* number of successive calls of the function in one run
MaxCalls == 2

Q == MaxNum - 1

(* ----------------------- rational arithmetic -------------------------- *)

Abs(n) == IF n < 0 THEN -n ELSE n

Sgn(n) == IF n < 0 THEN -1 ELSE IF n > 0 THEN 1 ELSE 0

RECURSIVE GCD(_, _)
GCD(a, b) == IF b = 0 THEN a ELSE GCD(b, a % b)

\* the number n/d; d = 0 gives inf, -inf or nan
Rat(n, d) ==
    IF d = 0 THEN <<Sgn(n), 0>>
    ELSE LET g == GCD(Abs(n), Abs(d))
         IN  <<Sgn(d) * (n \div g), Abs(d) \div g>>

Zero == <<0, 1>>
One  == <<1, 1>>

RMul(x, y) == Rat(x[1] * y[1], x[2] * y[2])
RSub(x, y) == Rat(x[1] * y[2] - y[1] * x[2], x[2] * y[2])
RDiv(x, y) == Rat(x[1] * y[2], x[2] * y[1])
RAbs(x)    == <<Abs(x[1]), x[2]>>
RGt(x, y)  == x[1] * y[2] > y[1] * x[2]
IsFinite(x) == x[2] # 0

\* "{:5.2f}".format(x): sign, and the hundredths rounded half to even
Fmt(x) ==
    IF ~IsFinite(x)
    THEN <<IF x[1] < 0 THEN "-" ELSE "", IF x[1] = 0 THEN "nan" ELSE "inf", 0>>
    ELSE LET n == 100 * Abs(x[1])
             q == n \div x[2]
             r == n % x[2]
             h == IF 2 * r > x[2] \/ (2 * r = x[2] /\ q % 2 = 1) THEN q + 1 ELSE q
         IN  <<IF x[1] < 0 THEN "-" ELSE "", "fixed", h>>

(* --------------------------- the function ----------------------------- *)

Undef == <<>>
None  == <<>>

N == 3
P == 2 * N

Idx == 0 .. (N - 1)

all_r == <<r13, r23, r12>>
all_s == <<"r13", "r23", "r12">>

Line(kind, arg) == [kind |-> kind, arg |-> arg]

\* a sign slip: r > 1.0
OutOfRange_NoAbs(r) == RGt(r, One)

\* an off-by-boundary slip: np.abs(r) >= 1.0
OutOfRange_Closed(r) == ~RGt(One, RAbs(r))

\* np.abs(r) > 1.0
OutOfRange(r) == RGt(RAbs(r), One)

\* np.zeros((n, m))
Zeros2(n, m, z) == [a \in 0 .. (n - 1) |-> [b \in 0 .. (m - 1) |-> z]]

MakeR(x13, x23, x12) ==
    [a \in Idx |-> [b \in Idx |->
        IF {a, b} = {0, 1} THEN x12
        ELSE IF {a, b} = {1, 2} THEN x23
        ELSE IF {a, b} = {0, 2} THEN x13
        ELSE Zero]]

\* "roi_{} -> roi_{}".format(a, b)
Label(a, b) == "roi_" \o ToString(a) \o " -> roi_" \o ToString(b)

\* a numpy index a into an axis of length n: negative indices count from the end
InRange(a, n) == a >= -n /\ a < n
Wrap(a, n)    == IF a < 0 THEN a + n ELSE a

\* the stride 2 dropped
Perm_Stride1(a, b) == (b + a) % N

\* line 108: (jj + ii*2) % N
Perm(a, b) == (b + a * 2) % N

\* the square dropped
Denom_NoSquare(r) == RSub(One, r)

\* line 139
Denom(r) == RSub(One, RMul(r, r))

\* the zero-denominator branch never taken
Truthy_Always(x) == TRUE

\* "if denom :" -- a float is true unless it is zero
Truthy(x) == x[1] # 0 \/ x[2] = 0

Deconf(x, y, z, denom) == RDiv(RSub(x, RMul(y, z)), denom)

\* the bridge edge read from the wrong cell of R
Edges_WrongBridge(c, r, p, i, j, k) ==
    LET c1 == [c EXCEPT ![p][i][k] = r[i][j]]
        denom == Denom(r[i][k])
    IN  IF Truthy(denom)
        THEN LET c2 == [c1 EXCEPT ![p][i][j] = Deconf(r[i][j], r[i][k], r[k][j], denom)]
             IN  [c2 EXCEPT ![p][k][j] = Deconf(r[k][j], r[i][k], r[i][j], denom)]
        ELSE LET c2 == [c1 EXCEPT ![p][i][j] = Zero]
             IN  [c2 EXCEPT ![p][k][j] = Zero]

\* lines 135-150: the three edges of permutation p = (i, j, k) written into C
Edges(c, r, p, i, j, k) ==
    LET c1 == [c EXCEPT ![p][i][k] = r[i][k]]
        denom == Denom(r[i][k])
    IN  IF Truthy(denom)
        THEN LET c2 == [c1 EXCEPT ![p][i][j] = Deconf(r[i][j], r[i][k], r[k][j], denom)]
             IN  [c2 EXCEPT ![p][k][j] = Deconf(r[k][j], r[i][k], r[i][j], denom)]
        ELSE LET c2 == [c1 EXCEPT ![p][i][j] = Zero]
             IN  [c2 EXCEPT ![p][k][j] = Zero]

\* the two derived edges reported in the other order
Report_Swapped(s, c, p, i, j, k) ==
    << Line("blank", <<>>),
       Line("edge", <<s[i][k], Fmt(c[p][i][k])>>),
       Line("edge", <<s[k][j], Fmt(c[p][k][j])>>),
       Line("edge", <<s[i][j], Fmt(c[p][i][j])>>) >>

\* lines 153-156: the report of permutation p
Report(s, c, p, i, j, k) ==
    << Line("blank", <<>>),
       Line("edge", <<s[i][k], Fmt(c[p][i][k])>>),
       Line("edge", <<s[i][j], Fmt(c[p][i][j])>>),
       Line("edge", <<s[k][j], Fmt(c[p][k][j])>>) >>

\* the values of the first permutation returned
Result_FirstRow(s, c, p, i, j, k) ==
    << s[i][k], s[i][j], s[k][j], c[0][i][k], c[0][i][j], c[0][k][j] >>

\* lines 159-160
Result(s, c, p, i, j, k) ==
    << s[i][k], s[i][j], s[k][j], c[p][i][k], c[p][i][j], c[p][k][j] >>

(* ------------------------------ inputs -------------------------------- *)

Vals == { Rat(n, Q) : n \in -MaxNum .. MaxNum }

\* the two examples of the driver (lines 171-173 and 179-181)
Examples == { <<Rat(6, 10), Rat(-5, 10), Rat(-5, 100)>>,
              <<Rat(8, 10), Rat(75, 100), Rat(6, 10)>> }

Inputs == (Vals \X Vals \X Vals) \cup Examples

Verbs == {0, 1}

(* ------------------------------ actions ------------------------------- *)

Init ==
    /\ pc = "check"
    /\ calls = 1
    /\ \E t \in Inputs : r13 = t[1] /\ r23 = t[2] /\ r12 = t[3]
    /\ verb \in Verbs
    /\ it = 0
    /\ ii = Undef /\ jj = Undef /\ kk = Undef /\ pp = Undef
    /\ R = Undef /\ M1 = Undef /\ M2 = Undef /\ M = Undef /\ S = Undef /\ C = Undef
    /\ out = <<>>
    /\ ret = None
    /\ divs = {}
    /\ prev = None

\* lines 66-75, one iteration of the loop
CheckRange ==
    /\ pc = "check"
    /\ ii' = it
    /\ IF OutOfRange(all_r[it + 1])
       THEN /\ out' = Append(out, Line("error", <<all_s[it + 1], all_r[it + 1]>>))
            /\ pc' = "exit"
            /\ it' = it
       ELSE /\ out' = out
            /\ pc' = IF it + 1 = Len(all_r) THEN "assemble" ELSE "check"
            /\ it' = IF it + 1 = Len(all_r) THEN 0 ELSE it + 1
    /\ UNCHANGED <<calls, r13, r23, r12, verb, jj, kk, pp,
                   R, M1, M2, M, S, C, ret, divs, prev>>

\* lines 83-90
Assemble ==
    /\ pc = "assemble"
    /\ R' = MakeR(r13, r23, r12)
    /\ out' = IF verb # 0
              THEN out \o <<Line("hdrR", <<>>), Line("R", R')>>
              ELSE out
    /\ pc' = "alloc"
    /\ UNCHANGED <<calls, r13, r23, r12, verb, it, ii, jj, kk, pp,
                   M1, M2, M, S, C, ret, divs, prev>>

\* np.empty in place of np.zeros for M1: the cells hold whatever the memory held
Alloc_Empty ==
    /\ pc = "alloc"
    /\ M1' \in {Zeros2(N, N, 0), Zeros2(N, N, 1)}
    /\ M2' = Zeros2(N, N, 0)
    /\ M'  = Zeros2(P, N, 0)
    /\ S'  = Zeros2(N, N, <<>>)
    /\ C'  = [p \in 0 .. (P - 1) |-> Zeros2(N, N, Zero)]
    /\ pc' = "fill"
    /\ it' = 0
    /\ UNCHANGED <<calls, r13, r23, r12, verb, ii, jj, kk, pp,
                   R, out, ret, divs, prev>>

\* lines 95-103
Alloc ==
    /\ pc = "alloc"
    /\ M1' = Zeros2(N, N, 0)
    /\ M2' = Zeros2(N, N, 0)
    /\ M'  = Zeros2(P, N, 0)
    /\ S'  = Zeros2(N, N, <<>>)
    /\ C'  = [p \in 0 .. (P - 1) |-> Zeros2(N, N, Zero)]
    /\ pc' = "fill"
    /\ it' = 0
    /\ UNCHANGED <<calls, r13, r23, r12, verb, ii, jj, kk, pp,
                   R, out, ret, divs, prev>>

\* lines 106-110, one iteration of the inner loop
Fill ==
    /\ pc = "fill"
    /\ LET a == it \div N
           b == it % N
       IN  /\ ii' = a
           /\ jj' = b
           /\ M1' = [M1 EXCEPT ![a][b] = @ + Perm(a, b)]
           /\ M2' = [M2 EXCEPT ![b][a] = @ + Perm(a, b)]
           /\ S'  = [S  EXCEPT ![a][b] = Label(a + 1, b + 1)]
    /\ pc' = IF it + 1 = N * N THEN "slot" ELSE "fill"
    /\ it' = IF it + 1 = N * N THEN 0 ELSE it + 1
    /\ UNCHANGED <<calls, r13, r23, r12, verb, kk, pp,
                   R, M, C, out, ret, divs, prev>>

\* the mirror rows slotted without the + 1
SlotB_NoOffset(m2, a) == (m2[a][0] + m2[a][2] - 1) * (N - 1)

\* lines 115-116
SlotA(m1, a) == (m1[a][0] + m1[a][2] - 1) * (N - 1)
SlotB(m2, a) == (m2[a][0] + m2[a][2] - 1) * (N - 1) + 1

\* lines 113-118, one iteration of the inner loop; an index outside the
\* table raises IndexError
Slot ==
    /\ pc = "slot"
    /\ LET a  == it \div N
           b  == it % N
           aa == SlotA(M1, a)
           bb == SlotB(M2, a)
           Ma == [M EXCEPT ![Wrap(aa, P)][b] = M1[a][b]]
       IN  /\ ii' = a
           /\ jj' = b
           /\ IF ~InRange(aa, P)
              THEN M' = M /\ pc' = "raised" /\ it' = it
              ELSE IF ~InRange(bb, P)
              THEN M' = Ma /\ pc' = "raised" /\ it' = it
              ELSE /\ M' = [Ma EXCEPT ![Wrap(bb, P)][b] = M2[a][b]]
                   /\ pc' = IF it + 1 = N * N THEN "printM" ELSE "slot"
                   /\ it' = IF it + 1 = N * N THEN 0 ELSE it + 1
    /\ UNCHANGED <<calls, r13, r23, r12, verb, kk, pp,
                   R, M1, M2, S, C, out, ret, divs, prev>>

\* lines 120-122
PrintM ==
    /\ pc = "printM"
    /\ out' = IF verb # 0
              THEN out \o <<Line("hdrM", <<>>), Line("M", M)>>
              ELSE out
    /\ pc' = "perm"
    /\ UNCHANGED <<calls, r13, r23, r12, verb, it, ii, jj, kk, pp,
                   R, M1, M2, M, S, C, ret, divs, prev>>

\* lines 127-156, one iteration of the loop
Permute ==
    /\ pc = "perm"
    /\ LET i == M[it][0]
           j == M[it][1]
           k == M[it][2]
           denom == Denom(R[i][k])
           c == Edges(C, R, it, i, j, k)
       IN  /\ pp' = it
           /\ ii' = i /\ jj' = j /\ kk' = k
           /\ C' = c
           /\ divs' = IF Truthy(denom) THEN divs \cup {<<it, denom>>} ELSE divs
           /\ out' = out
                     \o (IF verb # 0 THEN <<Line("indices", <<i, j, k>>)>> ELSE <<>>)
                     \o (IF verb # 0 THEN <<Line("denom", denom)>> ELSE <<>>)
                     \o Report(S, c, it, i, j, k)
    /\ pc' = IF it + 1 = P THEN "return" ELSE "perm"
    /\ it' = it + 1
    /\ UNCHANGED <<calls, r13, r23, r12, verb, R, M1, M2, M, S, ret, prev>>

\* lines 159-161; the locals die with the frame
Return ==
    /\ pc = "return"
    /\ ret' = Result(S, C, pp, ii, jj, kk)
    /\ pc' = "done"
    /\ ii' = Undef /\ jj' = Undef /\ kk' = Undef /\ pp' = Undef
    /\ R' = Undef /\ M1' = Undef /\ M2' = Undef /\ M' = Undef /\ S' = Undef /\ C' = Undef
    /\ UNCHANGED <<calls, r13, r23, r12, verb, it, out, divs, prev>>

\* the driver calls the function again (lines 174 and 182); prev remembers
\* the outcome of the call just finished when the new call repeats its inputs
Call ==
    /\ pc = "done"
    /\ calls < MaxCalls
    /\ calls' = calls + 1
    /\ \E t \in Inputs : r13' = t[1] /\ r23' = t[2] /\ r12' = t[3]
    /\ verb' \in Verbs
    /\ prev' = IF <<r13', r23', r12', verb'>> = <<r13, r23, r12, verb>>
               THEN [ret |-> ret, out |-> out]
               ELSE None
    /\ pc' = "check"
    /\ it' = 0
    /\ out' = <<>>
    /\ ret' = None
    /\ divs' = {}
    /\ UNCHANGED locals

Next ==
    \/ CheckRange
    \/ Assemble
    \/ Alloc
    \/ Fill
    \/ Slot
    \/ PrintM
    \/ Permute
    \/ Return
    \/ Call

Spec == Init /\ [][Next]_vars

(* ------------------------- vocabulary of the claims -------------------- *)

\* x lies in the closed range [-1, 1]
InUnit(x) == x[2] > 0 /\ -x[2] <= x[1] /\ x[1] <= x[2]

ValidInput == InUnit(r13) /\ InUnit(r23) /\ InUnit(r12)

\* the raw correlation of the ROI pair {a, b} (0-based): r12 for roi_1/roi_2,
\* r13 for roi_1/roi_3, r23 for roi_2/roi_3, zero on the diagonal
RawCorr(a, b) ==
    CASE {a, b} = {0, 1} -> r12
      [] {a, b} = {0, 2} -> r13
      [] {a, b} = {1, 2} -> r23
      [] OTHER -> Zero

\* the permutation table in processing order
ExpectedM == << <<1, 2, 0>>, <<0, 2, 1>>, <<0, 1, 2>>,
                <<2, 1, 0>>, <<2, 0, 1>>, <<1, 0, 2>> >>

Rows == 0 .. 5

\* M holds the finished table
TableBuilt == pc \in {"printM", "perm", "return"}

\* the permutations processed so far in the running call
Processed ==
    IF pc = "perm" THEN 0 .. (it - 1)
    ELSE IF pc = "return" THEN Rows
    ELSE {}

\* the lines of the edge reports among the output
EdgeLines(o) == SelectSeq(o, LAMBDA l : l.kind \in {"blank", "edge"})

\* the number a printed "{:5.2f}" text denotes
Shown(f) == Rat(IF f[1] = "-" THEN -f[3] ELSE f[3], 100)

RoiLabels == { Label(a, b) : a, b \in 1 .. 3 }

(* -------------------------------- C1 ----------------------------------- *)

\* C1: a call with an input of absolute value above 1 never gets past the
\* range check: it ends in the exit of line 75 with one message naming an
\* offending input and its value, and no matrix, table, edge value, report
\* or result exists at any moment of the call.
C1_RangeErrorFirst ==
    ~ValidInput =>
        /\ pc \in {"check", "exit"}
        /\ R = Undef /\ M1 = Undef /\ M2 = Undef /\ M = Undef /\ S = Undef /\ C = Undef
        /\ divs = {}
        /\ ret = None
        /\ pc = "check" => out = <<>> /\ \A n \in 1 .. it : InUnit(all_r[n])
        /\ pc = "exit" =>
              \E n \in 1 .. 3 :
                  /\ ~InUnit(all_r[n])
                  /\ out = << Line("error", <<all_s[n], all_r[n]>>) >>

C1_Witness ==
    /\ pc = "exit"
    /\ InUnit(r13) /\ InUnit(r23)
    /\ r12 = Rat(-(Q + 1), Q)
    /\ out = << Line("error", <<"r12", r12>>) >>

(* -------------------------------- C2 ----------------------------------- *)

LastBridge == r23
LastIJ ==
    IF RMul(r23, r23) = One THEN Zero
    ELSE RDiv(RSub(r12, RMul(r23, r13)), RSub(One, RMul(r23, r23)))
LastKJ ==
    IF RMul(r23, r23) = One THEN Zero
    ELSE RDiv(RSub(r13, RMul(r23, r12)), RSub(One, RMul(r23, r23)))

\* C3 as stated: the returned labels and values are the content of the sixth
\* report block, i.e. the labels and the numbers printed there.
C3_ReturnIsSixthBlock ==
    pc = "done" =>
        LET e == EdgeLines(out)
        IN  /\ Len(ret) = 6
            /\ \A n \in 1 .. 3 :
                  /\ ret[n] = e[4 * 5 + 1 + n].arg[1]
                  /\ ret[n + 3] = Shown(e[4 * 5 + 1 + n].arg[2])

\* C3 as amended: the return holds exactly the 3 labels of row 5 (bridge i->k,
\* i->j, k->j) and the 3 unrounded edge values of row 5; the sixth report
\* block shows the same labels and these values formatted to 2 decimals.
C3_ReturnIsLastRow ==
    pc = "done" =>
        LET e == EdgeLines(out)
        IN  /\ ret = << Label(2, 3), Label(2, 1), Label(3, 1),
                        LastBridge, LastIJ, LastKJ >>
            /\ \A n \in 1 .. 3 :
                  e[4 * 5 + 1 + n].arg = <<ret[n], Fmt(ret[n + 3])>>

C3_Witness ==
    /\ pc = "done"
    /\ <<r13, r23, r12>> = <<Rat(6, 10), Rat(-5, 10), Rat(-5, 100)>>
    /\ ret[4] = Rat(-1, 2)
    /\ ret[5] = Rat(1, 3)
    /\ EdgeLines(out)[4 * 5 + 3].arg[2] = <<"", "fixed", 33>>

(* -------------------------------- C4 ----------------------------------- *)

\* C4: in the finished table every row holds 3 pairwise-distinct indices of
\* {0,1,2}, the 6 rows are pairwise distinct, and each unordered pair occurs
\* as the bridge pair {i,k} in exactly two rows, once in each direction.
C4_TableComplete ==
    TableBuilt =>
        /\ \A p \in Rows : {M[p][0], M[p][1], M[p][2]} = {0, 1, 2}
        /\ \A p, q \in Rows :
              p # q => <<M[p][0], M[p][1], M[p][2]>> # <<M[q][0], M[q][1], M[q][2]>>
        /\ \A a, b \in 0 .. 2 :
              a # b => Cardinality({p \in Rows : M[p][0] = a /\ M[p][2] = b}) = 1

C4_Witness ==
    /\ pc = "printM"
    /\ <<M[0][0], M[0][2]>> = <<1, 0>>
    /\ <<M[1][0], M[1][2]>> = <<0, 1>>

(* -------------------------------- C10 ---------------------------------- *)

\* C10: M1[b,c] = (c + 2b) mod 3 and M2[b,c] = M1[c,b]; the slots aa of the
\* forward rows are the even positions and the slots bb of the mirror rows
\* the odd positions, six distinct values covering 0..5; the table is
\* (1,2,0), (0,2,1), (0,1,2), (2,1,0), (2,0,1), (1,0,2), no row is left at
\* (0,0,0), and rows 2p and 2p+1 hold the two directions of one bridge pair.
C10_TableConstruction ==
    TableBuilt =>
        /\ \A b, c \in 0 .. 2 : M1[b][c] = (c + 2 * b) % 3 /\ M2[b][c] = M1[c][b]
        /\ {SlotA(M1, b) : b \in 0 .. 2} = {0, 2, 4}
        /\ {SlotB(M2, b) : b \in 0 .. 2} = {1, 3, 5}
        /\ \A b \in 0 .. 2 :
              /\ \A c \in 0 .. 2 : M[SlotA(M1, b)][c] = M1[b][c]
              /\ \A c \in 0 .. 2 : M[SlotB(M2, b)][c] = M2[b][c]
        /\ \A p \in Rows : <<M[p][0], M[p][1], M[p][2]>> = ExpectedM[p + 1]
        /\ \A p \in Rows : <<M[p][0], M[p][1], M[p][2]>> # <<0, 0, 0>>
        /\ \A p \in 0 .. 2 :
              /\ M[2 * p][0] = M[2 * p + 1][2]
              /\ M[2 * p][2] = M[2 * p + 1][0]
              /\ M[2 * p][1] = M[2 * p + 1][1]

C10_Witness ==
    /\ pc = "perm"
    /\ it = 0
    /\ <<M[5][0], M[5][1], M[5][2]>> = <<1, 0, 2>>
    /\ SlotA(M1, 2) = 0
    /\ SlotB(M2, 1) = 5

(* -------------------------------- C5 ----------------------------------- *)

\* the report blocks emitted so far in the running or finished call
Blocks(o) == 0 .. ((Len(EdgeLines(o)) \div 4) - 1)

\* C5: for every permutation (i, j, k) processed, in either branch, the value
\* stored at C[p,i,k] after the two derived edges are written is the raw
\* input correlation of the pair {i,k}, and the first line of its report
\* shows the edge i->k with that value.
C5_BridgeIsRaw ==
    ValidInput =>
        /\ \A p \in Processed :
              C[p][M[p][0]][M[p][2]] = RawCorr(M[p][0], M[p][2])
        /\ \A p \in Blocks(out) :
              LET i == ExpectedM[p + 1][1]
                  k == ExpectedM[p + 1][3]
              IN  EdgeLines(out)[4 * p + 2].arg
                      = <<Label(i + 1, k + 1), Fmt(RawCorr(i, k))>>

C5_Witness ==
    /\ pc = "return"
    /\ r13 = One /\ r12 = Rat(1, Q) /\ r23 = Rat(-1, Q)
    /\ C[2][0][2] = One
    /\ C[2][0][1] = Zero
    /\ C[0][1][0] = Rat(1, Q)
    /\ C[5][1][2] = Rat(-1, Q)
    /\ <<5, Denom(r23)>> \in divs

(* -------------------------------- C6 ----------------------------------- *)

\* the denominator 1 - R[i,k]^2 written from the inputs
ClaimDenom(i, k) == RSub(One, RMul(RawCorr(i, k), RawCorr(i, k)))

\* C6: for every permutation (i, j, k) processed whose denominator
\* 1 - R[i,k]^2 is not zero, C[i,j] = (R[i,j] - R[i,k]*R[k,j]) / denom and
\* C[k,j] = (R[k,j] - R[i,k]*R[i,j]) / denom, with R the symmetric matrix of
\* the inputs with zero diagonal.
C6_DerivedEdges ==
    ValidInput =>
        \A p \in Processed :
            LET i == M[p][0]
                j == M[p][1]
                k == M[p][2]
            IN  ClaimDenom(i, k) # Zero =>
                  /\ C[p][i][j] =
                        RDiv(RSub(RawCorr(i, j), RMul(RawCorr(i, k), RawCorr(k, j))),
                             ClaimDenom(i, k))
                  /\ C[p][k][j] =
                        RDiv(RSub(RawCorr(k, j), RMul(RawCorr(i, k), RawCorr(i, j))),
                             ClaimDenom(i, k))
                  /\ \A a, b \in 0 .. 2 : R[a][b] = RawCorr(a, b)

C6_Witness ==
    /\ pc = "return"
    /\ <<r13, r23, r12>> = <<Rat(8, 10), Rat(75, 100), Rat(6, 10)>>
    /\ C[5][1][0] = Rat(0, 1)
    /\ C[5][2][0] = Rat(8, 10)
    /\ C[0][1][2] = Rat(27, 64)

(* -------------------------------- C7 ----------------------------------- *)

\* C7: for every permutation (i, j, k) processed whose bridge correlation is
\* exactly +1 or -1, both derived edges are exactly 0 and no division was
\* performed for it; the call neither exits nor raises, and the remaining
\* permutations are processed (6 reports at the return).
C7_Degenerate ==
    ValidInput =>
        /\ \A p \in Processed :
              LET i == M[p][0]
                  j == M[p][1]
                  k == M[p][2]
              IN  RawCorr(i, k) \in {One, Rat(-1, 1)} =>
                    /\ C[p][i][j] = Zero
                    /\ C[p][k][j] = Zero
                    /\ \A d \in divs : d[1] # p
        /\ \A p \in Blocks(out) :
              LET i == ExpectedM[p + 1][1]
                  j == ExpectedM[p + 1][2]
                  k == ExpectedM[p + 1][3]
              IN  RawCorr(i, k) \in {One, Rat(-1, 1)} =>
                    /\ EdgeLines(out)[4 * p + 3].arg = <<Label(i + 1, j + 1), Fmt(Zero)>>
                    /\ EdgeLines(out)[4 * p + 4].arg = <<Label(k + 1, j + 1), Fmt(Zero)>>
        /\ pc \notin {"exit", "raised"}
        /\ pc \in {"return", "done"} => Blocks(out) = Rows

C7_Witness ==
    /\ pc = "return"
    /\ r13 = One /\ r12 = Rat(1, Q) /\ r23 = Rat(1, Q)
    /\ C[2][0][1] = Zero /\ C[2][2][1] = Zero
    /\ C[3][2][1] = Zero /\ C[3][0][1] = Zero
    /\ {d[1] : d \in divs} = {0, 1, 4, 5}

(* -------------------------------- C8 ----------------------------------- *)

\* the output lines other than those of the edge reports
OtherLines(o) == SelectSeq(o, LAMBDA l : l.kind \notin {"blank", "edge"})

\* position of the first line of kind k in o, 0 when there is none
First(o, k) ==
    IF \E n \in 1 .. Len(o) : o[n].kind = k
    THEN CHOOSE n \in 1 .. Len(o) :
            o[n].kind = k /\ \A m \in 1 .. (n - 1) : o[m].kind # k
    ELSE 0

\* C8: with verbose on or off, one report per permutation processed, in row
\* order, each a blank line and the edges i->k, i->j, k->j in that order; all
\* 6 are out when the call returns.  With verbose on, the matrix R and the
\* table M are printed, both before any edge value exists or is reported;
\* with verbose off nothing else is printed.
C8_Reports ==
    ValidInput =>
        LET e == EdgeLines(out)
        IN  /\ Len(e) = 4 * Cardinality(Blocks(out))
            /\ pc = "perm" => Cardinality(Blocks(out)) = it
            /\ pc \in {"return", "done"} => Blocks(out) = Rows
            /\ pc \in {"check", "assemble", "alloc", "fill", "slot", "printM"}
                  => Blocks(out) = {}
            /\ \A p \in Blocks(out) :
                  LET i == ExpectedM[p + 1][1]
                      j == ExpectedM[p + 1][2]
                      k == ExpectedM[p + 1][3]
                  IN  /\ e[4 * p + 1].kind = "blank"
                      /\ e[4 * p + 2].kind = "edge"
                      /\ e[4 * p + 2].arg[1] = Label(i + 1, k + 1)
                      /\ e[4 * p + 3].kind = "edge"
                      /\ e[4 * p + 3].arg[1] = Label(i + 1, j + 1)
                      /\ e[4 * p + 4].kind = "edge"
                      /\ e[4 * p + 4].arg[1] = Label(k + 1, j + 1)
            /\ verb = 0 => OtherLines(out) = <<>>
            /\ (verb # 0 /\ (Processed # {} \/ Blocks(out) # {} \/ pc = "perm")) =>
                  /\ First(out, "R") > 0
                  /\ First(out, "M") > First(out, "R")
                  /\ out[First(out, "R")].arg = MakeR(r13, r23, r12)
                  /\ \A p \in Rows : \A c \in 0 .. 2 :
                        out[First(out, "M")].arg[p][c] = ExpectedM[p + 1][c + 1]
                  /\ \A n \in 1 .. First(out, "M") : out[n].kind \notin {"blank", "edge"}

C8_Witness ==
    /\ pc = "done"
    /\ verb = 1
    /\ Len(EdgeLines(out)) = 24
    /\ First(out, "M") = 4
    /\ First(out, "blank") = 7

C8_WitnessQuiet ==
    /\ pc = "done"
    /\ verb = 0
    /\ Len(out) = 24

(* -------------------------------- C9 ----------------------------------- *)

\* C9: a call that repeats the inputs of the call before it neither exits nor
\* raises and ends with the same labels, the same values and the same
\* sequence of output lines; nothing of a call's frame (R, M1, M2, M, S, C,
\* the loop variables) exists when the next call starts or after it returns.
C9_CallsIndependent ==
    /\ prev # None =>
          /\ pc \notin {"exit", "raised"}
          /\ pc = "done" => ret = prev.ret /\ out = prev.out
    /\ (pc = "done" \/ (pc = "check" /\ it = 0)) =>
          /\ R = Undef /\ M1 = Undef /\ M2 = Undef /\ M = Undef
          /\ S = Undef /\ C = Undef

C9_Witness ==
    /\ pc = "done"
    /\ calls = 2
    /\ prev # None
    /\ ret = prev.ret
    /\ out = prev.out
    /\ ret[5] = Rat(1, 3)

====
